---- MODULE Spec2Model ----
(***************************************************************************)
(* Model of app.py: the Discord bot messenger.  One request cycle is one   *)
(* run of the script for one browser session: verify the bot token, load   *)
(* and migrate config.json, handle a pending OAuth2 callback, then render  *)
(* the onboarding wizard or the admin dashboard.  The configuration file   *)
(* is shared by all sessions; everything else is per session.              *)
(*                                                                         *)
(* Encoding of values.  Ids (users, DM channels, guilds, channels) are     *)
(* positive integers and 0 stands for a missing key or the empty string,   *)
(* which the code does not tell apart (config.get(k, "") and truthiness).  *)
(* A user record keeps id, username and dm_channel_id; global_name and     *)
(* authorized_at are not read by any decision of the program and are left  *)
(* out, as is channel_name, which always travels with channel_id.          *)
(* The message feed (get_messages, display_messages) only reads and is     *)
(* left out as well.                                                       *)
(***************************************************************************)
EXTENDS Integers, Sequences, FiniteSets, TLC

\* ---------------------------------------------------------------- bounds
MaxUsers == 2
MaxGuild == 1
MaxChans == 2
MaxMsgLen == 2

Sessions == {1, 2}
UserIds == 1..MaxUsers
\* The DM channel of a user: the remote side creates it on the first
\* open_dm_channel and returns the same one on every later call.
DmChannelOf(u) == MaxUsers + u
GuildIds == 1..MaxGuild

\* ------------------------------------------------------------- sequences
Range(seq) == {seq[i] : i \in 1..Len(seq)}

Ids(users) == {users[i].id : i \in 1..Len(users)}

RECURSIVE Count(_, _)
Count(seq, x) ==
    IF seq = <<>> THEN 0
    ELSE (IF Head(seq) = x THEN 1 ELSE 0) + Count(Tail(seq), x)

\* ---------------------------------------------------------- config store
EmptyConfig ==
    [has_authorized_users |-> FALSE, authorized_users |-> <<>>,
     guild_id |-> 0, channel_id |-> 0,
     dm_user_id |-> 0, dm_channel_id |-> 0, dm_username |-> 0]

\* load_config(): the file's document, or {} when the file does not exist.
load_config(f) == IF f.exists THEN f.data ELSE EmptyConfig

\* save_config(data): the whole file is overwritten with data.
save_config(data) == [exists |-> TRUE, data |-> data]

\* add_authorized_user(config, user_record): linear scan for the first record
\* with the same id; replace it where it is, else append.
FirstIndexOf(users, id) ==
    IF \E i \in 1..Len(users) : users[i].id = id
    THEN CHOOSE i \in 1..Len(users) :
            /\ users[i].id = id
            /\ \A j \in 1..(i - 1) : users[j].id # id
    ELSE 0

\* Mutant: the record is appended without looking for its id.
add_authorized_user_append(c, user_record) ==
    [c EXCEPT !.has_authorized_users = TRUE,
              !.authorized_users = Append(@, user_record)]

\* Mutant: a record found is removed and the new one appended.
add_authorized_user_move(c, user_record) ==
    [c EXCEPT !.has_authorized_users = TRUE,
              !.authorized_users =
                  Append(SelectSeq(@, LAMBDA u : u.id # user_record.id), user_record)]

add_authorized_user(c, user_record) ==
    LET users == c.authorized_users
        i == FirstIndexOf(users, user_record.id)
    IN  [c EXCEPT !.has_authorized_users = TRUE,
                  !.authorized_users =
                      IF i # 0 THEN [users EXCEPT ![i] = user_record]
                      ELSE Append(users, user_record)]

\* Mutant: the legacy fields are left in the configuration.
migrate_config_keep_legacy(c) ==
    IF c.dm_user_id # 0 /\ ~c.has_authorized_users
    THEN [config |-> [c EXCEPT !.has_authorized_users = TRUE,
                               !.authorized_users =
                                   <<[id |-> c.dm_user_id,
                                      username |-> c.dm_username,
                                      dm_channel_id |-> c.dm_channel_id]>>],
          saved |-> TRUE]
    ELSE [config |-> c, saved |-> FALSE]

\* migrate_config(config): [config, saved], saved telling whether save_config
\* was called.
migrate_config(c) ==
    IF c.dm_user_id # 0 /\ ~c.has_authorized_users
    THEN [config |-> [c EXCEPT !.has_authorized_users = TRUE,
                               !.authorized_users =
                                   <<[id |-> c.dm_user_id,
                                      username |-> c.dm_username,
                                      dm_channel_id |-> c.dm_channel_id]>>,
                               !.dm_user_id = 0,
                               !.dm_channel_id = 0,
                               !.dm_username = 0],
          saved |-> TRUE]
    ELSE [config |-> c, saved |-> FALSE]

\* ------------------------------------------------------------ API client
\* A fetched channel entry: id, type and an optional position.
ChannelEntries(i) ==
    [id : {i}, type : {0, 2}, has_position : BOOLEAN, position : {0, 1}]

RawChannelLists ==
    UNION {{raw \in [1..n -> UNION {ChannelEntries(i) : i \in 1..MaxChans}] :
               \A i \in 1..n : /\ raw[i].id = i
                               /\ (~raw[i].has_position => raw[i].position = 0)} :
           n \in 0..MaxChans}

\* The channel lists the sessions' Load Channels clicks are answered with:
\* none, only a voice channel, or text channels listed out of position order.
FetchedChannelLists ==
    {raw \in RawChannelLists :
        \/ raw = <<>>
        \/ Len(raw) = 1 /\ raw[1].type = 2 /\ ~raw[1].has_position
        \/ /\ Len(raw) = MaxChans
           /\ \A i \in 1..Len(raw) :
                 /\ raw[i].type = 0
                 /\ raw[i].has_position
                 /\ raw[i].position = (IF i = 1 THEN 1 ELSE 0)}

\* key=lambda ch: ch.get("position", 0)
PositionKey(ch) == IF ch.has_position THEN ch.position ELSE 0

RECURSIVE SelectType0(_)
SelectType0(channels) ==
    IF channels = <<>> THEN <<>>
    ELSE IF Head(channels).type = 0
         THEN <<Head(channels)>> \o SelectType0(Tail(channels))
         ELSE SelectType0(Tail(channels))

\* Mutant: an entry goes before the entries of the same key.
RECURSIVE InsertByPosition_before_equal(_, _)
InsertByPosition_before_equal(sorted, ch) ==
    IF sorted = <<>> THEN <<ch>>
    ELSE IF PositionKey(Head(sorted)) < PositionKey(ch)
         THEN <<Head(sorted)>> \o InsertByPosition_before_equal(Tail(sorted), ch)
         ELSE <<ch>> \o sorted

\* sorted() is stable: an entry goes after every entry whose key is not larger.
RECURSIVE InsertByPosition(_, _)
InsertByPosition(sorted, ch) ==
    IF sorted = <<>> THEN <<ch>>
    ELSE IF PositionKey(Head(sorted)) <= PositionKey(ch)
         THEN <<Head(sorted)>> \o InsertByPosition(Tail(sorted), ch)
         ELSE <<ch>> \o sorted

RECURSIVE SortedByPosition(_)
SortedByPosition(channels) ==
    IF channels = <<>> THEN <<>>
    ELSE InsertByPosition(SortedByPosition(SubSeq(channels, 1, Len(channels) - 1)),
                          channels[Len(channels)])

\* get_guild_channels on a 2xx response whose body is the list raw.
get_guild_channels(raw) == SortedByPosition(SelectType0(raw))

\* Outcomes of a call that raises on failure (raise_for_status): the value,
\* an HTTPError carrying a status, or another RequestException.
ErrorStatuses == {401, 403, 404, 429, 500}

\* ------------------------------------------------------- send and report
Whitespace == {" ", "\n", "\t"}
Chars == {" ", "a"}
Contents == UNION {[1..n -> Chars] : n \in 0..MaxMsgLen}

RECURSIVE lstrip(_)
lstrip(content) ==
    IF content # <<>> /\ Head(content) \in Whitespace
    THEN lstrip(Tail(content)) ELSE content

RECURSIVE rstrip(_)
rstrip(content) ==
    IF content # <<>> /\ content[Len(content)] \in Whitespace
    THEN rstrip(SubSeq(content, 1, Len(content) - 1)) ELSE content

\* str.strip()
strip(content) == rstrip(lstrip(content))

\* A response body: JSON or not, and the retry_after key of a JSON object.
NoBody == [is_json |-> FALSE, has_retry_after |-> FALSE, retry_after |-> 0]
Bodies ==
    {NoBody,
     [is_json |-> TRUE, has_retry_after |-> FALSE, retry_after |-> 0],
     [is_json |-> TRUE, has_retry_after |-> TRUE, retry_after |-> 3]}

SendStatuses == {200, 204, 403, 404, 429, 500}

\* What send_message returns or raises: a response of any status, or a
\* RequestException (status 0).
SendOutcomes ==
    [kind : {"response"}, status : SendStatuses, body : Bodies]
        \cup {[kind |-> "network_error", status |-> 0, body |-> NoBody]}

\* The outcome handed to send_and_report when it makes no call.
NotCalled == [kind |-> "not_called", status |-> 0, body |-> NoBody]

\* The ways a Send Message click can go: a blank text is rejected before
\* any request is made; the installed requests library matters only where
\* the body is decoded.
SendCases ==
    {x \in [content : Contents, outcome : SendOutcomes \cup {NotCalled},
            compat : BOOLEAN, used : {TRUE}] :
        /\ (x.outcome = NotCalled) = (strip(x.content) = <<>>)
        /\ (~x.compat => x.outcome.status = 429 /\ ~x.outcome.body.is_json)}

\* A displayed notice.  retry_after 0 in a rate-limit notice is the default
\* text "a few".
Notice(level, text, status, body, retry_after) ==
    [level |-> level, text |-> text, status |-> status, body |-> body,
     retry_after |-> retry_after]

Report(trace, notices) == [trace |-> trace, notices |-> notices, raised |-> FALSE]

\* Mutant: the text is not checked before the request is made.
send_and_report_unchecked(content, outcome, decode_error_is_request_exception) ==
    IF outcome.kind = "response" /\ outcome.status = 200
    THEN Report(<<"send_message">>, <<Notice("success", "sent", 0, NoBody, 0)>>)
    ELSE Report(<<"send_message">>,
                <<Notice("error", "api_error", outcome.status, outcome.body, 0)>>)

\* Mutant: a rate-limited or failed request is made a second time.
send_and_report_retry(content, outcome, decode_error_is_request_exception) ==
    IF strip(content) = <<>>
    THEN Report(<<>>, <<Notice("error", "empty_message", 0, NoBody, 0)>>)
    ELSE IF outcome.kind = "response" /\ outcome.status = 200
    THEN Report(<<"send_message">>, <<Notice("success", "sent", 0, NoBody, 0)>>)
    ELSE Report(<<"send_message", "send_message">>,
                <<Notice("error", "api_error", outcome.status, outcome.body, 0)>>)

\* send_and_report(token, channel_id, content) when send_message ends as
\* outcome.  resp.json() on a body that is not JSON raises a decode error:
\* decode_error_is_request_exception tells whether the installed requests
\* library makes that error a RequestException (caught at the except clause)
\* or a plain ValueError (it leaves the function).
send_and_report(content, outcome, decode_error_is_request_exception) ==
    IF strip(content) = <<>>
    THEN Report(<<>>, <<Notice("error", "empty_message", 0, NoBody, 0)>>)
    ELSE IF outcome.kind = "network_error"
    THEN Report(<<"send_message">>,
                <<Notice("error", "network_error", 0, NoBody, 0)>>)
    ELSE IF outcome.status = 200
    THEN Report(<<"send_message">>, <<Notice("success", "sent", 0, NoBody, 0)>>)
    ELSE IF outcome.status = 429
    THEN IF outcome.body.is_json
         THEN Report(<<"send_message">>,
                     <<Notice("error", "rate_limited", 0, NoBody,
                              IF outcome.body.has_retry_after
                              THEN outcome.body.retry_after ELSE 0)>>)
         ELSE IF decode_error_is_request_exception
         THEN Report(<<"send_message">>,
                     <<Notice("error", "network_error", 0, NoBody, 0)>>)
         ELSE [trace |-> <<"send_message">>, notices |-> <<>>, raised |-> TRUE]
    ELSE IF outcome.status = 403
    THEN Report(<<"send_message">>,
                <<Notice("error", "lacks_permission", 0, NoBody, 0)>>)
    ELSE IF outcome.status = 404
    THEN Report(<<"send_message">>,
                <<Notice("error", "channel_not_found", 0, NoBody, 0)>>)
    ELSE Report(<<"send_message">>,
                <<Notice("error", "api_error", outcome.status, outcome.body, 0)>>)

\* ------------------------------------------------------- OAuth2 callback
\* The answers to the remote calls of one callback, each "ok", "http"
\* (HTTPError) or "network" (another RequestException), with the identity
\* and the DM channel the remote side answers with; a call that comes after
\* a failed one gets no answer ("not_called").
Answers == {"ok", "http", "network"}

OAuthResults ==
    {r \in [token : Answers,
            user : Answers \cup {"not_called"}, user_id : {0} \cup UserIds,
            dm : Answers \cup {"not_called"},
            dm_id : {0} \cup {DmChannelOf(u) : u \in UserIds}] :
        /\ (r.user = "not_called") = (r.token # "ok")
        /\ (r.user_id # 0) = (r.user = "ok")
        /\ (r.dm = "not_called") = (r.user # "ok")
        /\ r.dm_id = (IF r.dm = "ok" THEN DmChannelOf(r.user_id) ELSE 0)}

NoOAuthResults ==
    [token |-> "not_called", user |-> "not_called", user_id |-> 0,
     dm |-> "not_called", dm_id |-> 0]

OAuthFailed(c, trace, kind) ==
    [config |-> c, saved |-> FALSE,
     trace |-> trace \o <<"query_params.clear", "st.stop">>,
     notices |-> <<Notice("error",
                          IF kind = "http" THEN "oauth2_error"
                          ELSE "oauth2_network_error", 0, NoBody, 0)>>,
     view |-> "oauth_error", cleared |-> TRUE]

\* Mutant: the record is upserted and saved as soon as the identity is
\* known, and the DM channel is opened afterwards.
oauth_callback_save_early(c, oauth_guild_id, r) ==
    IF r.token # "ok"
    THEN OAuthFailed(c, <<"exchange_code_for_token">>, r.token)
    ELSE IF r.user # "ok"
    THEN OAuthFailed(c, <<"exchange_code_for_token", "get_oauth_user">>, r.user)
    ELSE LET c1 == add_authorized_user(
                       c, [id |-> r.user_id, username |-> r.user_id,
                           dm_channel_id |-> r.dm_id])
         IN  [config |-> c1, saved |-> TRUE,
              trace |-> <<"exchange_code_for_token", "get_oauth_user",
                          "add_authorized_user", "save_config", "open_dm_channel",
                          "query_params.clear", "st.stop">>,
              notices |-> <<Notice(IF r.dm = "ok" THEN "success" ELSE "error",
                                   IF r.dm = "ok" THEN "connected" ELSE "oauth2_error",
                                   0, NoBody, 0)>>,
              view |-> IF r.dm = "ok" THEN "oauth_success" ELSE "oauth_error",
              cleared |-> TRUE]

\* Mutant: the configuration is saved before the guild id is stored in it.
oauth_callback_guild_late(c, oauth_guild_id, r) ==
    IF r.token # "ok" \/ r.user # "ok" \/ r.dm # "ok"
    THEN OAuthFailed(c, <<"exchange_code_for_token">>, "http")
    ELSE [config |-> add_authorized_user(
                         c, [id |-> r.user_id, username |-> r.user_id,
                             dm_channel_id |-> r.dm_id]),
          saved |-> TRUE,
          trace |-> <<"exchange_code_for_token", "get_oauth_user",
                      "open_dm_channel", "add_authorized_user", "save_config">>
                    \o (IF oauth_guild_id # 0 THEN <<"set_guild_id">> ELSE <<>>)
                    \o <<"query_params.clear", "st.stop">>,
          notices |-> <<Notice("success", "connected", 0, NoBody, 0)>>,
          view |-> "oauth_success", cleared |-> TRUE]

\* The callback handler's body: the calls are made in order and the first
\* failure leaves the try block; the record is built, upserted and saved
\* only after all three calls returned.
oauth_callback(c, oauth_guild_id, r) ==
    IF r.token # "ok"
    THEN OAuthFailed(c, <<"exchange_code_for_token">>, r.token)
    ELSE IF r.user # "ok"
    THEN OAuthFailed(c, <<"exchange_code_for_token", "get_oauth_user">>, r.user)
    ELSE IF r.dm # "ok"
    THEN OAuthFailed(c, <<"exchange_code_for_token", "get_oauth_user",
                          "open_dm_channel">>, r.dm)
    ELSE LET user_record == [id |-> r.user_id, username |-> r.user_id,
                             dm_channel_id |-> r.dm_id]
             c1 == add_authorized_user(c, user_record)
             c2 == IF oauth_guild_id # 0
                   THEN [c1 EXCEPT !.guild_id = oauth_guild_id] ELSE c1
         IN  [config |-> c2, saved |-> TRUE,
              trace |-> <<"exchange_code_for_token", "get_oauth_user",
                          "open_dm_channel", "add_authorized_user">>
                        \o (IF oauth_guild_id # 0 THEN <<"set_guild_id">> ELSE <<>>)
                        \o <<"save_config", "query_params.clear", "st.stop">>,
              notices |-> <<Notice("success", "connected", 0, NoBody, 0)>>,
              view |-> "oauth_success", cleared |-> TRUE]

\* ------------------------------------------------------------------ state
VARIABLES
    file,              \* config.json: [exists, data]
    persisted,         \* history: every user id that was ever in the file
    OAUTH2_AVAILABLE,  \* bool(CLIENT_SECRET and REDIRECT_URI), fixed per process
    pc,                \* per session: position in the script run, or "idle"
    config,            \* per session: the script's config variable
    query_params,      \* per session: st.query_params
    session_state,     \* per session: st.session_state
    trigger,           \* per session: the button whose click started this run
    trace,             \* per session: remote calls and effects since the user acted
    notices,           \* per session: st.success / st.error shown by this run
    view,              \* per session: what the finished run rendered
    buttons,           \* per session: the buttons the finished run rendered
    inputs             \* per session: what the user and the remote side gave
                       \* since the user acted

vars == <<file, persisted, OAUTH2_AVAILABLE, pc, config, query_params,
          session_state, trigger, trace, notices, view, buttons, inputs>>

QueryParams ==
    {qp \in [code : BOOLEAN, guild_id : 0..MaxGuild, admin : BOOLEAN] :
        ~qp.code => qp.guild_id = 0}

\* The callback's answers, the Send Message case, the user selected for
\* Open DM Channel (0: none), whether the run started with "admin" in the
\* query string, and the channel list a Load Channels click fetched.
NoSendCase == [content |-> <<>>, outcome |-> NotCalled, compat |-> TRUE, used |-> FALSE]

NoInputs ==
    [oauth |-> NoOAuthResults, send |-> NoSendCase, selected_user |-> 0,
     admin |-> FALSE, fetched |-> FALSE, raw |-> <<>>]

NoQueryParams == [code |-> FALSE, guild_id |-> 0, admin |-> FALSE]

NewSessionState ==
    [onboarding_step |-> "unset", onboarding_channels |-> <<>>, channels |-> <<>>]

\* Configurations written by the earlier single-user version of the program:
\* the user's id and name (the name is the id here), with or without the DM
\* channel.
LegacyConfigs ==
    UNION {{[EmptyConfig EXCEPT !.dm_user_id = u, !.dm_channel_id = d,
                                !.dm_username = u] : d \in {0, DmChannelOf(u)}} :
           u \in UserIds}

InitialFiles ==
    {[exists |-> FALSE, data |-> EmptyConfig]}
        \cup {[exists |-> TRUE, data |-> c] : c \in LegacyConfigs}

Init ==
    /\ file \in InitialFiles
    /\ persisted = Ids(load_config(file).authorized_users)
    /\ OAUTH2_AVAILABLE \in BOOLEAN
    /\ pc = [s \in Sessions |-> "idle"]
    /\ config = [s \in Sessions |-> EmptyConfig]
    /\ query_params = [s \in Sessions |-> NoQueryParams]
    /\ session_state = [s \in Sessions |-> NewSessionState]
    /\ trigger = [s \in Sessions |-> "none"]
    /\ trace = [s \in Sessions |-> <<>>]
    /\ notices = [s \in Sessions |-> <<>>]
    /\ view = [s \in Sessions |-> "none"]
    /\ buttons = [s \in Sessions |-> {}]
    /\ inputs = [s \in Sessions |-> NoInputs]

\* --------------------------------------------------------------- helpers
\* Mutant: the save keeps the records of the file that data does not hold.
Write_merge(data) ==
    /\ file' = save_config(
                   [data EXCEPT !.authorized_users =
                       @ \o SelectSeq(load_config(file).authorized_users,
                                      LAMBDA u : u.id \notin Ids(data.authorized_users))])
    /\ persisted' = persisted \cup Ids(data.authorized_users)

Write(data) ==
    /\ file' = save_config(data)
    /\ persisted' = persisted \cup Ids(data.authorized_users)

NoWrite == UNCHANGED <<file, persisted>>

\* The run goes on to position p, having done the events tr.
Goto(s, p, tr) ==
    /\ pc' = [pc EXCEPT ![s] = p]
    /\ trace' = [trace EXCEPT ![s] = trace[s] \o tr]
    /\ UNCHANGED <<trigger, view, buttons>>

\* The run ends (st.stop() or the end of the script) having rendered view v
\* with the buttons bs; the script's variables are gone.
Finish(s, v, bs, tr) ==
    /\ pc' = [pc EXCEPT ![s] = "idle"]
    /\ config' = [config EXCEPT ![s] = EmptyConfig]
    /\ trace' = [trace EXCEPT ![s] = trace[s] \o tr]
    /\ view' = [view EXCEPT ![s] = v]
    /\ buttons' = [buttons EXCEPT ![s] = bs]
    /\ UNCHANGED trigger

\* st.rerun(): the run is abandoned and the script starts again at once, with
\* no widget triggered and nothing of this run left on the page.
Rerun(s, tr) ==
    /\ pc' = [pc EXCEPT ![s] = "verify"]
    /\ trace' = [trace EXCEPT ![s] = trace[s] \o tr \o <<"st.rerun">>]
    /\ trigger' = [trigger EXCEPT ![s] = "none"]
    /\ notices' = [notices EXCEPT ![s] = <<>>]
    /\ config' = [config EXCEPT ![s] = EmptyConfig]
    /\ UNCHANGED <<view, buttons>>

\* A user event starts a run of the script from the top.
StartRun(s, t) ==
    /\ pc' = [pc EXCEPT ![s] = "verify"]
    /\ trigger' = [trigger EXCEPT ![s] = t]
    /\ trace' = [trace EXCEPT ![s] = <<>>]
    /\ notices' = [notices EXCEPT ![s] = <<>>]
    /\ view' = [view EXCEPT ![s] = "none"]
    /\ buttons' = [buttons EXCEPT ![s] = {}]
    /\ config' = [config EXCEPT ![s] = EmptyConfig]
    /\ inputs' = [inputs EXCEPT ![s] =
                      [NoInputs EXCEPT !.admin = query_params'[s].admin]]

Show(s, ns) == notices' = [notices EXCEPT ![s] = notices[s] \o ns]

\* ----------------------------------------------------------- user events
\* The browser loads the app's URL (typed, a link of the page, or the
\* redirect back from the authorization page): a new session state.
Navigate(s) ==
    /\ pc[s] = "idle"
    /\ \E qp \in QueryParams :
          query_params' = [query_params EXCEPT ![s] = qp]
    /\ session_state' = [session_state EXCEPT ![s] = NewSessionState]
    /\ StartRun(s, "none")
    /\ UNCHANGED <<file, persisted, OAUTH2_AVAILABLE>>

\* The user clicks one of the buttons the page shows.
Click(s) ==
    /\ pc[s] = "idle"
    /\ UNCHANGED <<file, persisted, OAUTH2_AVAILABLE, query_params, session_state>>
    /\ \E b \in buttons[s] : StartRun(s, b)

\* ------------------------------------------------------------ entry point
\* Verify bot token: GET /users/@me; anything but a 200 halts the run.
VerifyBotToken(s) ==
    /\ pc[s] = "verify"
    /\ \E outcome \in {"ok", "unauthorized", "api_error", "network_error"} :
          IF outcome = "ok"
          THEN /\ Goto(s, "load", <<"verify_bot_token">>)
               /\ UNCHANGED <<config, notices>>
          ELSE /\ Finish(s, "startup_failure", {}, <<"verify_bot_token", "st.stop">>)
               /\ Show(s, <<Notice("error", outcome, 0, NoBody, 0)>>)
    /\ NoWrite
    /\ UNCHANGED <<inputs, OAUTH2_AVAILABLE, query_params, session_state>>

\* config = load_config()
LoadConfig(s) ==
    /\ pc[s] = "load"
    /\ config' = [config EXCEPT ![s] = load_config(file)]
    /\ Goto(s, "migrate", <<>>)
    /\ NoWrite
    /\ UNCHANGED <<inputs, OAUTH2_AVAILABLE, query_params, session_state, notices>>

\* config = migrate_config(config)
MigrateConfig(s) ==
    /\ pc[s] = "migrate"
    /\ LET m == migrate_config(config[s])
       IN  /\ config' = [config EXCEPT ![s] = m.config]
           /\ IF m.saved
              THEN Write(m.config) /\ Goto(s, "main", <<"migrate_save_config">>)
              ELSE NoWrite /\ Goto(s, "main", <<>>)
    /\ UNCHANGED <<inputs, OAUTH2_AVAILABLE, query_params, session_state, notices>>

\* Mutant: "admin" in the query string is looked at before "code".
IsCallback_unless_admin(s) ==
    OAUTH2_AVAILABLE /\ query_params[s].code /\ ~query_params[s].admin

IsCallback(s) == OAUTH2_AVAILABLE /\ query_params[s].code

\* OAuth2 callback handler: the three remote calls, then upsert and save.
OAuthCallback(s) ==
    /\ pc[s] = "main"
    /\ IsCallback(s)
    /\ \E r \in OAuthResults :
          LET o == oauth_callback(config[s], query_params[s].guild_id, r)
          IN  /\ inputs' = [inputs EXCEPT ![s].oauth = r]
              /\ IF o.saved THEN Write(o.config) ELSE NoWrite
              /\ query_params' = [query_params EXCEPT ![s] =
                                      IF o.cleared THEN NoQueryParams ELSE @]
              /\ Finish(s, o.view, {}, o.trace)
              /\ Show(s, o.notices)
    /\ UNCHANGED <<OAUTH2_AVAILABLE, session_state>>

\* ------------------------------------------------------ onboarding wizard
InOnboarding(s) == pc[s] = "main" /\ ~IsCallback(s) /\ ~query_params[s].admin

\* Mutant: a configured channel does not count as a completed setup.
SetupComplete_users_only(c) == c.authorized_users # <<>>

\* authorized_users or channel_configured
SetupComplete(c) == c.authorized_users # <<>> \/ c.channel_id # 0

InWizard(s) == InOnboarding(s) /\ ~SetupComplete(config[s])

\* st.session_state.onboarding_step, "choose" when the run has to set it.
OnboardingStep(s) ==
    IF session_state[s].onboarding_step = "unset" THEN "choose"
    ELSE session_state[s].onboarding_step

SetStep(s, step) ==
    session_state' = [session_state EXCEPT ![s].onboarding_step = step]

\* show_onboarding, setup already complete: the status page.
ShowStatusSummary(s) ==
    /\ InOnboarding(s)
    /\ SetupComplete(config[s])
    /\ Finish(s, "summary", {}, <<"st.stop">>)
    /\ NoWrite
    /\ UNCHANGED <<inputs, OAUTH2_AVAILABLE, query_params, session_state, notices>>

\* show_onboarding, step "choose".
WizardChoose(s) ==
    /\ InWizard(s)
    /\ OnboardingStep(s) = "choose"
    /\ IF trigger[s] = "direct_message"
       THEN SetStep(s, "dm") /\ Rerun(s, <<>>)
       ELSE IF trigger[s] = "channel"
       THEN SetStep(s, "channel") /\ Rerun(s, <<>>)
       ELSE /\ SetStep(s, "choose")
            /\ Finish(s, "choose", {"direct_message", "channel"}, <<"st.stop">>)
            /\ UNCHANGED notices
    /\ NoWrite
    /\ UNCHANGED <<inputs, OAUTH2_AVAILABLE, query_params>>

\* Mutant: Back on the dm step goes to the channel step.
OnboardingDm_back_to_channel(s) ==
    /\ InWizard(s)
    /\ OnboardingStep(s) = "dm"
    /\ IF trigger[s] = "back"
       THEN SetStep(s, "channel") /\ Rerun(s, <<>>)
       ELSE /\ Finish(s, "dm", {"back"}, <<"st.stop">>)
            /\ Show(s, IF OAUTH2_AVAILABLE THEN <<>>
                       ELSE <<Notice("error", "oauth2_not_configured", 0, NoBody, 0)>>)
            /\ UNCHANGED session_state
    /\ NoWrite
    /\ UNCHANGED <<inputs, OAUTH2_AVAILABLE, query_params>>

\* _onboarding_dm
OnboardingDm(s) ==
    /\ InWizard(s)
    /\ OnboardingStep(s) = "dm"
    /\ IF trigger[s] = "back"
       THEN SetStep(s, "choose") /\ Rerun(s, <<>>)
       ELSE /\ Finish(s, "dm", {"back"}, <<"st.stop">>)
            /\ Show(s, IF OAUTH2_AVAILABLE THEN <<>>
                       ELSE <<Notice("error", "oauth2_not_configured", 0, NoBody, 0)>>)
            /\ UNCHANGED session_state
    /\ NoWrite
    /\ UNCHANGED <<inputs, OAUTH2_AVAILABLE, query_params>>

\* The Server ID text box: 0 is the empty text, a guild id is a snowflake of
\* 18 digits, -1 is a text of 16 digits and -2 a text of 17 characters that
\* are not all digits.
MinSnowflakeLen == 17
GuildTexts == (-2)..MaxGuild
TextIsDigit(t) == t # -2
TextLen(t) == IF t = 0 THEN 0 ELSE IF t = -1 THEN 16 ELSE IF t = -2 THEN 17 ELSE 18
guild_valid(t) == IF t # 0 THEN TextIsDigit(t) /\ TextLen(t) >= MinSnowflakeLen ELSE FALSE

\* What a Load Channels click gets: the channel list of a 2xx response, an
\* HTTPError with its status, or another RequestException.
LoadOutcomes ==
    [kind : {"ok"}, raw : FetchedChannelLists, status : {200}]
        \cup [kind : {"http"}, raw : {<<>>}, status : ErrorStatuses]
        \cup {[kind |-> "network", raw |-> <<>>, status |-> 0]}

\* The channel list cached in the session and the notice shown, for both
\* Load Channels buttons (wizard and dashboard).
LoadedChannels(o) == IF o.kind = "ok" THEN get_guild_channels(o.raw) ELSE <<>>

LoadNotices(o) ==
    IF o.kind = "ok"
    THEN IF get_guild_channels(o.raw) = <<>>
         THEN <<Notice("warning", "no_text_channels", 0, NoBody, 0)>> ELSE <<>>
    ELSE IF o.kind = "network"
    THEN <<Notice("error", "network_error", 0, NoBody, 0)>>
    ELSE IF o.status = 403
    THEN <<Notice("error", "no_access_to_server", 0, NoBody, 0)>>
    ELSE IF o.status = 404
    THEN <<Notice("error", "server_not_found", 0, NoBody, 0)>>
    ELSE <<Notice("error", "api_error", o.status, NoBody, 0)>>

WizardChannelButtons(channels) ==
    {"onboarding_load_ch", "back"}
        \cup (IF channels # <<>> THEN {"onboarding_save_channel"} ELSE {})

\* _onboarding_channel, Load Channels clicked (the button is enabled only
\* for a valid Server ID).
OnboardingLoadChannels(s) ==
    /\ InWizard(s)
    /\ OnboardingStep(s) = "channel"
    /\ trigger[s] = "onboarding_load_ch"
    /\ \E guild_id \in {t \in GuildTexts : guild_valid(t)}, o \in LoadOutcomes :
          /\ session_state' =
                [session_state EXCEPT ![s].onboarding_channels = LoadedChannels(o)]
          /\ inputs' = [inputs EXCEPT ![s].fetched = (o.kind = "ok"),
                                      ![s].raw = o.raw]
          /\ Show(s, LoadNotices(o))
          /\ Finish(s, "channel", WizardChannelButtons(LoadedChannels(o)),
                    <<"get_guild_channels", "st.stop">>)
    /\ NoWrite
    /\ UNCHANGED <<OAUTH2_AVAILABLE, query_params>>

\* Mutant: the Save writes a configuration made of its three keys only.
save_channel_fresh(c, guild_id, ch) ==
    [EmptyConfig EXCEPT !.guild_id = guild_id, !.channel_id = ch.id]

\* The three keys a channel Save stores.
save_channel(c, guild_id, ch) ==
    [c EXCEPT !.guild_id = guild_id, !.channel_id = ch.id]

\* _onboarding_channel, Save clicked: the run goes on rendering, no rerun.
OnboardingSaveChannel(s) ==
    /\ InWizard(s)
    /\ OnboardingStep(s) = "channel"
    /\ trigger[s] = "onboarding_save_channel"
    /\ session_state[s].onboarding_channels # <<>>
    /\ \E guild_id \in GuildTexts,
          i \in 1..Len(session_state[s].onboarding_channels) :
          Write(save_channel(config[s], guild_id,
                             session_state[s].onboarding_channels[i]))
    /\ Show(s, <<Notice("success", "saved", 0, NoBody, 0)>>)
    /\ Finish(s, "channel", WizardChannelButtons(session_state[s].onboarding_channels),
              <<"save_config", "st.stop">>)
    /\ UNCHANGED <<inputs, OAUTH2_AVAILABLE, query_params, session_state>>

\* _onboarding_channel, Back clicked or nothing clicked.
OnboardingChannel(s) ==
    /\ InWizard(s)
    /\ OnboardingStep(s) = "channel"
    /\ trigger[s] \notin {"onboarding_load_ch", "onboarding_save_channel"}
    /\ IF trigger[s] = "back"
       THEN SetStep(s, "choose") /\ Rerun(s, <<>>)
       ELSE /\ Finish(s, "channel",
                      WizardChannelButtons(session_state[s].onboarding_channels),
                      <<"st.stop">>)
            /\ UNCHANGED <<session_state, notices>>
    /\ NoWrite
    /\ UNCHANGED <<inputs, OAUTH2_AVAILABLE, query_params>>

\* -------------------------------------------------------- admin dashboard
InAdmin(s) == pc[s] = "main" /\ ~IsCallback(s) /\ query_params[s].admin

\* The buttons the dashboard renders for a configuration and a session.
AdminButtons(c, channels) ==
    (IF \E i \in 1..Len(c.authorized_users) : c.authorized_users[i].dm_channel_id = 0
     THEN {"open_dm"} ELSE {})
    \cup (IF \E i \in 1..Len(c.authorized_users) : c.authorized_users[i].dm_channel_id # 0
          THEN {"send_dm"} ELSE {})
    \cup (IF c.guild_id # 0 THEN {"load_channels"} ELSE {})
    \cup (IF c.guild_id # 0 /\ channels # <<>> THEN {"save_channel"} ELSE {})
    \cup (IF c.guild_id # 0 /\ c.channel_id # 0 THEN {"send_ch"} ELSE {})

\* How open_dm_channel ends: it returns the channel, or raises an HTTPError
\* with a status or another RequestException.
DmOutcomes ==
    [kind : {"ok"}, status : {200}]
        \cup [kind : {"http"}, status : ErrorStatuses]
        \cup {[kind |-> "network", status |-> 0]}

OpenDmNotices(o) ==
    IF o.kind = "network"
    THEN <<Notice("error", "network_error", 0, NoBody, 0)>>
    ELSE IF o.status = 403
    THEN <<Notice("error", "cannot_open_dm", 0, NoBody, 0)>>
    ELSE IF o.status = 404
    THEN <<Notice("error", "user_not_found", 0, NoBody, 0)>>
    ELSE <<Notice("error", "api_error", o.status, NoBody, 0)>>

\* Open DM Channel clicked for a selected user that has no dm_channel_id.
AdminOpenDm(s) ==
    /\ InAdmin(s)
    /\ trigger[s] = "open_dm"
    /\ \E i \in 1..Len(config[s].authorized_users), o \in DmOutcomes :
          LET selected_user == config[s].authorized_users[i]
              c == add_authorized_user(
                       config[s], [selected_user EXCEPT
                                      !.dm_channel_id = DmChannelOf(selected_user.id)])
          IN  /\ selected_user.dm_channel_id = 0
              /\ inputs' = [inputs EXCEPT ![s].selected_user = selected_user.id]
              /\ IF o.kind = "ok"
                 THEN /\ Write(c)
                      /\ Rerun(s, <<"open_dm_channel", "add_authorized_user",
                                    "save_config">>)
                 ELSE /\ NoWrite
                      /\ Show(s, OpenDmNotices(o))
                      /\ Finish(s, "admin",
                                AdminButtons(config[s], session_state[s].channels),
                                <<"open_dm_channel">>)
    /\ UNCHANGED <<OAUTH2_AVAILABLE, query_params, session_state>>

\* Send Message clicked on the Direct Messages tab.
AdminSendDm(s) ==
    /\ InAdmin(s)
    /\ trigger[s] = "send_dm"
    /\ \E i \in 1..Len(config[s].authorized_users) :
          config[s].authorized_users[i].dm_channel_id # 0
    /\ \E x \in SendCases :
          LET r == send_and_report(x.content, x.outcome, x.compat)
          IN  /\ inputs' = [inputs EXCEPT ![s].send = x]
              /\ Show(s, r.notices)
              /\ IF r.raised
                 THEN Finish(s, "exception", {"send_dm"}, r.trace)
                 ELSE Finish(s, "admin",
                             AdminButtons(config[s], session_state[s].channels),
                             r.trace)
    /\ NoWrite
    /\ UNCHANGED <<OAUTH2_AVAILABLE, query_params, session_state>>

\* Load Channels clicked on the Channel tab.
LoadChannelsClicked(s, outcomes) ==
    /\ InAdmin(s)
    /\ trigger[s] = "load_channels"
    /\ config[s].guild_id # 0
    /\ \E o \in outcomes :
          /\ session_state' = [session_state EXCEPT ![s].channels = LoadedChannels(o)]
          /\ inputs' = [inputs EXCEPT ![s].fetched = (o.kind = "ok"),
                                      ![s].raw = o.raw]
          /\ Show(s, LoadNotices(o))
          /\ Finish(s, "admin", AdminButtons(config[s], LoadedChannels(o)),
                    <<"get_guild_channels">>)
    /\ NoWrite
    /\ UNCHANGED <<OAUTH2_AVAILABLE, query_params>>

AdminLoadChannels(s) == LoadChannelsClicked(s, LoadOutcomes)

\* The same click answered with any channel list of the bounds.
AnyChannelList == [kind : {"ok"}, raw : RawChannelLists, status : {200}]

AdminLoadAnyChannels(s) == LoadChannelsClicked(s, AnyChannelList)

\* Save clicked on the Channel tab.
AdminSaveChannel(s) ==
    /\ InAdmin(s)
    /\ trigger[s] = "save_channel"
    /\ config[s].guild_id # 0
    /\ session_state[s].channels # <<>>
    /\ \E i \in 1..Len(session_state[s].channels) :
          Write(save_channel(config[s], config[s].guild_id,
                             session_state[s].channels[i]))
    /\ Rerun(s, <<"save_config">>)
    /\ UNCHANGED <<inputs, OAUTH2_AVAILABLE, query_params, session_state>>

\* Send Message clicked on the Channel tab.
AdminSendCh(s) ==
    /\ InAdmin(s)
    /\ trigger[s] = "send_ch"
    /\ config[s].guild_id # 0
    /\ config[s].channel_id # 0
    /\ \E x \in SendCases :
          LET r == send_and_report(x.content, x.outcome, x.compat)
          IN  /\ inputs' = [inputs EXCEPT ![s].send = x]
              /\ Show(s, r.notices)
              /\ Finish(s, IF r.raised THEN "exception" ELSE "admin",
                        AdminButtons(config[s], session_state[s].channels),
                        r.trace)
    /\ NoWrite
    /\ UNCHANGED <<OAUTH2_AVAILABLE, query_params, session_state>>

\* Whether the clicked button is reached, and so acts, in this run.
AdminFires(s) ==
    \/ /\ trigger[s] = "open_dm"
       /\ \E i \in 1..Len(config[s].authorized_users) :
             config[s].authorized_users[i].dm_channel_id = 0
    \/ /\ trigger[s] = "send_dm"
       /\ \E i \in 1..Len(config[s].authorized_users) :
             config[s].authorized_users[i].dm_channel_id # 0
    \/ trigger[s] = "load_channels" /\ config[s].guild_id # 0
    \/ /\ trigger[s] = "save_channel"
       /\ config[s].guild_id # 0
       /\ session_state[s].channels # <<>>
    \/ /\ trigger[s] = "send_ch"
       /\ config[s].guild_id # 0
       /\ config[s].channel_id # 0

\* The dashboard is rendered and no button acts.
AdminRender(s) ==
    /\ InAdmin(s)
    /\ ~AdminFires(s)
    /\ Finish(s, "admin", AdminButtons(config[s], session_state[s].channels), <<>>)
    /\ NoWrite
    /\ UNCHANGED <<inputs, OAUTH2_AVAILABLE, query_params, session_state, notices>>

\* ----------------------------------------------------------- specification
Step(s) ==
    \/ Navigate(s)
    \/ Click(s)
    \/ VerifyBotToken(s)
    \/ LoadConfig(s)
    \/ MigrateConfig(s)
    \/ OAuthCallback(s)
    \/ ShowStatusSummary(s)
    \/ WizardChoose(s)
    \/ OnboardingDm(s)
    \/ OnboardingLoadChannels(s)
    \/ OnboardingSaveChannel(s)
    \/ OnboardingChannel(s)
    \/ AdminOpenDm(s)
    \/ AdminSendDm(s)
    \/ AdminLoadChannels(s)
    \/ AdminSaveChannel(s)
    \/ AdminSendCh(s)
    \/ AdminRender(s)

\* One browser session at a time: the single-operator assumption the program
\* is written for.
Next == Step(1)

Spec == Init /\ [][Next]_vars

\* Two browser sessions on the same configuration file, each loading the
\* page (plainly, as admin, or redirected back with a callback code), their
\* script runs interleaved at every remote call and file access.
PageLoad(s) ==
    \/ Navigate(s)
    \/ VerifyBotToken(s)
    \/ LoadConfig(s)
    \/ MigrateConfig(s)
    \/ OAuthCallback(s)
    \/ ShowStatusSummary(s)
    \/ WizardChoose(s)
    \/ AdminRender(s)

NextTwoSessions == \E s \in Sessions : PageLoad(s)

SpecTwoSessions == Init /\ [][NextTwoSessions]_vars

\* One session, the dashboard's Load Channels answered with every channel
\* list of the bounds: entries of type 0 and 2, with and without a position,
\* positions equal and different.
NextAnyChannels == Next \/ AdminLoadAnyChannels(1)

SpecAnyChannels == Init /\ [][NextAnyChannels]_vars

\* =============================================================== properties
\* What a step of session s added to its trace.
Appended(s) ==
    IF Len(trace'[s]) >= Len(trace[s])
    THEN SubSeq(trace'[s], Len(trace[s]) + 1, Len(trace'[s]))
    ELSE <<>>

StoredUsers == file.data.authorized_users

\* The step in which session s runs the callback handler.
CallbackStep(s) == pc[s] = "main" /\ IsCallback(s) /\ pc'[s] = "idle"

AnswersOk(r) == r.token = "ok" /\ r.user = "ok" /\ r.dm = "ok"

\* The step in which session s runs migrate_config.
MigrateStep(s) == pc[s] = "migrate" /\ pc'[s] = "main"

\* The step in which an Open DM Channel click of session s is answered with
\* a channel.
OpenDmSavedStep(s) ==
    /\ pc[s] = "main"
    /\ trigger[s] = "open_dm"
    /\ "save_config" \in Range(Appended(s))

\* C1: no two records of the persisted authorized_users list have the same
\* id, whatever sequence of migration, callbacks and Open DM recoveries a
\* single session performs.
C1_UniqueUserIds ==
    \A i, j \in 1..Len(StoredUsers) :
        StoredUsers[i].id = StoredUsers[j].id => i = j

\* An Open DM recovery has re-saved a user of a list of MaxUsers users.
C1_Witness ==
    /\ Len(StoredUsers) = MaxUsers
    /\ inputs[1].selected_user # 0
    /\ "add_authorized_user" \in Range(trace[1])
    /\ \E i \in 1..Len(StoredUsers) :
          /\ StoredUsers[i].id = inputs[1].selected_user
          /\ StoredUsers[i].dm_channel_id # 0

\* C2: when the token exchange, the identity lookup or the DM channel
\* creation of a callback fails, the file is left as it was (no record added
\* or changed, no guild_id stored), the query parameters are cleared, one
\* error is shown and the run halts.
C2_FailedCallbackPersistsNothing ==
    [][\A s \in Sessions :
          CallbackStep(s) /\ ~AnswersOk(inputs'[s].oauth) =>
              /\ file' = file
              /\ "save_config" \notin Range(Appended(s))
              /\ "add_authorized_user" \notin Range(Appended(s))
              /\ query_params'[s] = NoQueryParams
              /\ Len(notices'[s]) = 1
              /\ notices'[s][1].level = "error"
              /\ view'[s] = "oauth_error"
              /\ Appended(s)[Len(Appended(s))] = "st.stop"]_vars

\* The identity was obtained and the DM channel could not be opened, with a
\* configuration file already there.
C2_Witness ==
    /\ pc[1] = "idle"
    /\ view[1] = "oauth_error"
    /\ inputs[1].oauth.user = "ok"
    /\ inputs[1].oauth.dm \in {"http", "network"}
    /\ file.exists
    /\ ~query_params[1].code

\* C3: a successful callback exchanges the code, reads the identity and opens
\* the DM channel in that order, and only then upserts and saves; the file
\* then holds the user's record with the dm_channel_id of the channel just
\* opened, and guild_id is the callback's when it carried one and the
\* previous one otherwise; the parameters are cleared and the run halts.
C3_SuccessfulCallback ==
    [][\A s \in Sessions :
          CallbackStep(s) =>
              LET r == inputs'[s].oauth
                  users == file'.data.authorized_users
                  g == query_params[s].guild_id
              IN  /\ file' # file => AnswersOk(r)
                  /\ AnswersOk(r) =>
                        /\ Appended(s) =
                              <<"exchange_code_for_token", "get_oauth_user",
                                "open_dm_channel", "add_authorized_user">>
                              \o (IF g # 0 THEN <<"set_guild_id">> ELSE <<>>)
                              \o <<"save_config", "query_params.clear", "st.stop">>
                        /\ file'.exists
                        /\ \E i \in 1..Len(users) :
                              /\ users[i].id = r.user_id
                              /\ users[i].dm_channel_id = r.dm_id
                        /\ r.dm_id = DmChannelOf(r.user_id)
                        /\ file'.data.guild_id =
                              IF g # 0 THEN g ELSE load_config(file).guild_id
                        /\ query_params'[s] = NoQueryParams
                        /\ view'[s] = "oauth_success"]_vars

\* A callback that carried a guild id has succeeded.
C3_Witness ==
    /\ pc[1] = "idle"
    /\ view[1] = "oauth_success"
    /\ "set_guild_id" \in Range(trace[1])
    /\ file.data.guild_id # 0
    /\ \E i \in 1..Len(StoredUsers) :
          /\ StoredUsers[i].id = inputs[1].oauth.user_id
          /\ StoredUsers[i].dm_channel_id = inputs[1].oauth.dm_id

\* new is old with rec put in the place of the first record of rec's id, or
\* with rec appended when old has no such record.
IsUpsertOf(new, old, rec) ==
    IF \E i \in 1..Len(old) : old[i].id = rec.id
    THEN LET k == CHOOSE i \in 1..Len(old) :
                      /\ old[i].id = rec.id
                      /\ \A j \in 1..(i - 1) : old[j].id # rec.id
         IN  /\ Len(new) = Len(old)
             /\ new[k] = rec
             /\ \A j \in 1..Len(old) : j # k => new[j] = old[j]
    ELSE /\ Len(new) = Len(old) + 1
         /\ new[Len(new)] = rec
         /\ \A j \in 1..Len(old) : new[j] = old[j]

\* C4: add_authorized_user replaces, in place, the first record with the new
\* record's id, leaving the list's length and the other records alone, and
\* appends the record when no record has its id; so at both places that call
\* it (the callback, Open DM Channel).
C4_UpsertInPlace ==
    [][\A s \in Sessions :
          /\ CallbackStep(s) /\ AnswersOk(inputs'[s].oauth) =>
                IsUpsertOf(file'.data.authorized_users,
                           config[s].authorized_users,
                           [id |-> inputs'[s].oauth.user_id,
                            username |-> inputs'[s].oauth.user_id,
                            dm_channel_id |-> inputs'[s].oauth.dm_id])
          /\ OpenDmSavedStep(s) =>
                \E i \in 1..Len(config[s].authorized_users) :
                    /\ config[s].authorized_users[i].id = inputs'[s].selected_user
                    /\ IsUpsertOf(file'.data.authorized_users,
                                  config[s].authorized_users,
                                  [config[s].authorized_users[i] EXCEPT
                                      !.dm_channel_id =
                                          DmChannelOf(inputs'[s].selected_user)])]_vars

\* The user a callback has just authorized is the first of several records:
\* the record was replaced where it was.
C4_Witness ==
    /\ pc[1] = "idle"
    /\ view[1] = "oauth_success"
    /\ Len(StoredUsers) >= 2
    /\ StoredUsers[1].id = inputs[1].oauth.user_id

\* The legacy single-user form: a dm_user_id and no authorized_users key.
HasLegacyFields(c) == c.dm_user_id # 0 /\ ~c.has_authorized_users

\* C5: migrate_config turns a configuration with the legacy DM fields and
\* no authorized_users key into one whose authorized_users is exactly one
\* record with the legacy dm_user_id as id, without the legacy fields, and
\* saves it; migrate_config of the result returns it as it is and does not
\* save; a run that loads the migrated file migrates and writes nothing.
C5_MigrateOnceThenNoOp ==
    [][\A s \in Sessions :
          MigrateStep(s) =>
              IF HasLegacyFields(config[s])
              THEN /\ config'[s].has_authorized_users
                   /\ Len(config'[s].authorized_users) = 1
                   /\ config'[s].authorized_users[1].id = config[s].dm_user_id
                   /\ config'[s].dm_user_id = 0
                   /\ config'[s].dm_channel_id = 0
                   /\ config'[s].dm_username = 0
                   /\ file' = [exists |-> TRUE, data |-> config'[s]]
                   /\ migrate_config(config'[s]) =
                          [config |-> config'[s], saved |-> FALSE]
                   /\ ~HasLegacyFields(load_config(file'))
              ELSE /\ config'[s] = config[s]
                   /\ file' = file
                   /\ Appended(s) = <<>>]_vars

\* A run has just migrated a legacy configuration.
C5_Witness ==
    /\ pc[1] = "main"
    /\ "migrate_save_config" \in Range(trace[1])
    /\ Len(config[1].authorized_users) = 1
    /\ file.data = config[1]

\* C6: with one session, an id that was ever in the persisted
\* authorized_users is in it for ever after.
C6_UserNeverRemoved == persisted \subseteq Ids(StoredUsers)

\* The dashboard's channel Save has rewritten a file that holds users.
C6_Witness ==
    /\ pc[1] = "verify"
    /\ "save_config" \in Range(trace[1])
    /\ inputs[1].selected_user = 0
    /\ StoredUsers # <<>>
    /\ file.data.channel_id # 0

\* The ids a step of session s adds to what it loaded.
OwnIds(s) ==
    (IF pc[s] = "migrate" THEN {config[s].dm_user_id} ELSE {})
        \cup ({inputs'[s].oauth.user_id} \ {0})

\* C7: a save of a session writes the whole file from what that session
\* loaded at the start of its run and changed itself, what the file holds at
\* the time of the save playing no part; with two sessions a record one
\* session has persisted is then lost to a later save of the other.
C7_SaveOverwritesWholeFile ==
    [][\A s \in Sessions :
          pc'[s] # pc[s] /\ file' # file =>
              /\ file'.exists
              /\ Ids(file'.data.authorized_users) =
                     Ids(config[s].authorized_users) \cup OwnIds(s)
              /\ file'.data.channel_id = config[s].channel_id
              /\ \A t \in Sessions \ {s} : config'[t] = config[t]]_vars

\* Lost update: an id that was persisted is no longer in the file.
C7_Witness ==
    \E u \in persisted :
        /\ u \notin Ids(StoredUsers)
        /\ \E s \in Sessions : inputs[s].oauth.user_id = u

\* The text is empty or made of whitespace only.
IsBlank(content) == \A i \in 1..Len(content) : content[i] \in Whitespace

\* C8: a send action with an empty or all-whitespace message makes no
\* send_message call and shows the "empty message" error.
C8_BlankMessageNotSent ==
    \A s \in Sessions :
        inputs[s].send.used /\ IsBlank(inputs[s].send.content) =>
            /\ "send_message" \notin Range(trace[s])
            /\ Len(notices[s]) = 1
            /\ notices[s][1].level = "error"
            /\ notices[s][1].text = "empty_message"

\* A send action was given a text of whitespace characters.
C8_Witness ==
    /\ pc[1] = "idle"
    /\ inputs[1].send.used
    /\ Len(inputs[1].send.content) >= 1
    /\ IsBlank(inputs[1].send.content)
    /\ Len(notices[1]) = 1

\* The notice the outcome of a send call is to be reported with.
ExpectedNotice(o) ==
    IF o.kind = "network_error" THEN [level |-> "error", text |-> "network_error"]
    ELSE IF o.status = 200 THEN [level |-> "success", text |-> "sent"]
    ELSE IF o.status = 429 THEN [level |-> "error", text |-> "rate_limited"]
    ELSE IF o.status = 403 THEN [level |-> "error", text |-> "lacks_permission"]
    ELSE IF o.status = 404 THEN [level |-> "error", text |-> "channel_not_found"]
    ELSE [level |-> "error", text |-> "api_error"]

\* C9: for a non-blank message exactly one notice is reported, chosen by the
\* outcome of the send call: success for 200, rate limit with the body's
\* retry_after for 429, lacks permission for 403, channel not found for 404,
\* the generic notice with status and body for any other status, network
\* error for a network failure; success for status 200 only.
C9_NoticeByOutcome ==
    \A s \in Sessions :
        inputs[s].send.used /\ ~IsBlank(inputs[s].send.content) =>
            LET o == inputs[s].send.outcome
                e == ExpectedNotice(o)
            IN  /\ Len(notices[s]) = 1
                /\ notices[s][1].level = e.level
                /\ notices[s][1].text = e.text
                /\ e.text = "rate_limited" /\ o.body.has_retry_after =>
                       notices[s][1].retry_after = o.body.retry_after
                /\ e.text = "api_error" =>
                       /\ notices[s][1].status = o.status
                       /\ notices[s][1].body = o.body
                /\ notices[s][1].level = "success" =>
                       o.kind = "response" /\ o.status = 200

RemoteCalls ==
    {"exchange_code_for_token", "get_oauth_user", "open_dm_channel",
     "get_guild_channels", "send_message"}

HasError(ns) == \E i \in 1..Len(ns) : ns[i].level = "error"

\* C10: in what follows one user event, automatic reruns included, each
\* remote call is made at most once, whatever its outcome; a failure ends
\* the run, and a failed callback leaves no code to run the callback again.
C10_NoAutomaticRetry ==
    \A s \in Sessions :
        /\ \A c \in RemoteCalls : Count(trace[s], c) <= 1
        /\ Count(trace[s], "verify_bot_token") <= Count(trace[s], "st.rerun") + 1
        /\ HasError(notices[s]) => pc[s] = "idle"
        /\ view[s] = "oauth_error" => ~query_params[s].code

\* A send was answered with a rate limit and was made once.
C10_Witness ==
    /\ pc[1] = "idle"
    /\ inputs[1].send.used
    /\ inputs[1].send.outcome.kind = "response"
    /\ inputs[1].send.outcome.status = 429
    /\ Count(trace[1], "send_message") = 1
    /\ HasError(notices[1])

StartupViews == {"startup_failure"}
CallbackViews == {"oauth_success", "oauth_error"}
WizardViews == {"summary", "choose", "dm", "channel"}
DashboardViews == {"admin", "exception"}

\* The step with which a run of session s ends.
RunEnds(s) == pc[s] # "idle" /\ pc'[s] = "idle"

\* A code is in the query string and OAuth2 is configured.
CodePending(s) == OAUTH2_AVAILABLE /\ query_params[s].code

\* C11: a run renders one of the startup failure, the callback result, the
\* wizard and the dashboard: the startup failure when the bot-token check
\* fails, before the configuration is loaded or migrated; else the callback
\* result when a code is pending, with "admin" present or not and whether
\* the callback succeeds or fails; else the dashboard when "admin" is
\* present; else the wizard.
C11_DispatchPrecedence ==
    [][\A s \in Sessions :
          /\ RunEnds(s) =>
                /\ (view'[s] \in StartupViews) = (pc[s] = "verify")
                /\ pc[s] = "verify" =>
                      /\ HasError(notices'[s])
                      /\ config[s] = EmptyConfig
                      /\ config'[s] = EmptyConfig
                      /\ file' = file
                /\ pc[s] # "verify" =>
                      /\ pc[s] = "main"
                      /\ view'[s] \in
                            IF CodePending(s) THEN CallbackViews
                            ELSE IF query_params[s].admin THEN DashboardViews
                            ELSE WizardViews
          /\ pc[s] = "verify" /\ pc'[s] \notin {"verify", "idle"} =>
                /\ pc'[s] = "load"
                /\ ~HasError(notices'[s])
          /\ pc[s] = "main" /\ pc'[s] # "main" /\ CodePending(s) =>
                /\ pc'[s] = "idle"
                /\ session_state'[s] = session_state[s]]_vars

\* A callback was handled in a run whose query string also held "admin".
C11_Witness ==
    /\ pc[1] = "idle"
    /\ view[1] \in CallbackViews
    /\ inputs[1].admin
    /\ inputs[1].oauth.token # "not_called"

\* The step in which session s, past the callback test and without "admin",
\* runs show_onboarding.
OnboardingDispatch(s) ==
    /\ pc[s] = "main"
    /\ pc'[s] # "main"
    /\ ~CodePending(s)
    /\ ~query_params[s].admin

\* C12: show_onboarding with a configuration that has an authorized user or
\* a channel_id renders the status summary and nothing of the wizard, the
\* session's onboarding_step and the button clicked playing no part; so
\* once a callback or a wizard Save has put a user or a channel in the file,
\* every later run of show_onboarding renders the summary.
C12_SummaryWhenSetUp ==
    [][\A s \in Sessions :
          /\ OnboardingDispatch(s)
          /\ \/ config[s].authorized_users # <<>>
             \/ config[s].channel_id # 0
             \/ StoredUsers # <<>>
             \/ file.data.channel_id # 0
          => /\ pc'[s] = "idle"
             /\ view'[s] = "summary"
             /\ buttons'[s] = {}
             /\ session_state'[s] = session_state[s]
             /\ file' = file]_vars

\* The summary is shown to a session left at the channel step by the Save
\* that configured the channel, its Back button clicked.
C12_Witness ==
    /\ pc[1] = "idle"
    /\ view[1] = "summary"
    /\ session_state[1].onboarding_step = "channel"
    /\ trigger[1] = "back"
    /\ StoredUsers = <<>>
    /\ file.data.channel_id # 0

\* The channel list the session caches for the page it is on.
CachedChannels(s) ==
    IF inputs[s].admin THEN session_state[s].channels
    ELSE session_state[s].onboarding_channels

\* An entry's position, 0 when it has none.
PositionOrZero(ch) == IF ch.has_position THEN ch.position ELSE 0

\* out is the entries of raw of type 0, each once, ascending by position,
\* entries of the same position in the order they have in raw.  The entry at
\* index i of raw has id i.
IsTextChannelsByPosition(out, raw) ==
    /\ \A j \in 1..Len(out) :
          /\ out[j].id \in 1..Len(raw)
          /\ out[j] = raw[out[j].id]
          /\ out[j].type = 0
    /\ \A j, k \in 1..Len(out) : out[j].id = out[k].id => j = k
    /\ \A i \in 1..Len(raw) :
          raw[i].type = 0 => \E j \in 1..Len(out) : out[j].id = i
    /\ \A j, k \in 1..Len(out) :
          j < k =>
              \/ PositionOrZero(out[j]) < PositionOrZero(out[k])
              \/ /\ PositionOrZero(out[j]) = PositionOrZero(out[k])
                 /\ out[j].id < out[k].id

\* C13: the list get_guild_channels returns, which Load Channels caches, is
\* the fetched list's entries of type 0, none dropped, none twice and none
\* of another type, ascending by position with a missing position counted
\* as 0, entries of equal position in their fetched order.
C13_TextChannelsSortedStable ==
    \A s \in Sessions :
        inputs[s].fetched =>
            /\ IsTextChannelsByPosition(CachedChannels(s), inputs[s].raw)
            /\ CachedChannels(s) = get_guild_channels(inputs[s].raw)

\* A fetched list of MaxChans entries with two text channels of the same
\* position, the earlier one without a position key.
C13_Witness ==
    /\ pc[1] = "idle"
    /\ inputs[1].fetched
    /\ Len(inputs[1].raw) = MaxChans
    /\ \E i, k \in 1..MaxChans :
          /\ i < k
          /\ inputs[1].raw[i].type = 0
          /\ inputs[1].raw[k].type = 0
          /\ ~inputs[1].raw[i].has_position
          /\ inputs[1].raw[k].has_position
          /\ inputs[1].raw[k].position = 0
    /\ Len(CachedChannels(1)) >= 2

WizardSteps == {"choose", "dm", "channel"}

\* C14: onboarding_step, absent in a new session, is set to "choose" by the
\* first wizard run and is one of "choose", "dm", "channel" from then on; it
\* changes from choose to dm by the Direct Message button, from choose to
\* channel by the Channel button and from dm or channel to choose by Back,
\* and in no other way; a wizard run writes the file only by the channel
\* step's Save, which leaves the step where it is.
C14_WizardSteps ==
    [][\A s \in Sessions :
          LET a == session_state[s].onboarding_step
              b == session_state'[s].onboarding_step
          IN  /\ b \in WizardSteps \cup {"unset"}
              /\ a # b =>
                    \/ b = "unset" /\ pc[s] = "idle" /\ pc'[s] = "verify"
                    \/ a = "unset" /\ b = "choose" /\ view'[s] = "choose"
                    \/ /\ OnboardingDispatch(s)
                       /\ file' = file
                       /\ \/ a = "choose" /\ b = "dm"
                             /\ trigger[s] = "direct_message"
                          \/ a = "choose" /\ b = "channel"
                             /\ trigger[s] = "channel"
                          \/ a \in {"dm", "channel"} /\ b = "choose"
                             /\ trigger[s] = "back"
              /\ RunEnds(s) /\ view'[s] \in WizardSteps => b = view'[s]
              /\ OnboardingDispatch(s) /\ file' # file =>
                    /\ a = "channel"
                    /\ b = "channel"
                    /\ trigger[s] = "onboarding_save_channel"
                    /\ file'.data.authorized_users = config[s].authorized_users]_vars

\* Back has brought the session from the dm or the channel step to the
\* step selection again.
C14_Witness ==
    /\ pc[1] = "idle"
    /\ view[1] = "choose"
    /\ session_state[1].onboarding_step = "choose"
    /\ Count(trace[1], "st.rerun") = 1
    /\ ~file.exists

====
